---------------------------- MODULE Spec2Model ----------------------------
(***************************************************************************)
(* Model of functions.py: the financial-field reconciliation routine       *)
(* process_financial_dataframe and the leaf normalizers it calls           *)
(* (clean_numeric_value, extract_text_content, find_target_column,         *)
(* is_cad_currency).                                                       *)
(*                                                                         *)
(* Text is a sequence of one-character strings, so that strip, the regular *)
(* expressions, lower() and the substring tests are computed, character by *)
(* character, as the code computes them.  A cell value is a tagged record: *)
(* NA (a missing value: None, NaN, pd.NA), a str, an int or a float.  A    *)
(* float is the decimal neg, m, e standing for (+/-) m * 10^e with m not   *)
(* divisible by 10: float() of a digit string, negation, the product with  *)
(* the conversion rate and str() are computed on that decimal.  The values *)
(* used are ones whose IEEE double result prints as that same decimal      *)
(* (-100.0 * 0.73 is -73.0 in Python).                                     *)
(***************************************************************************)
EXTENDS Integers, Sequences, FiniteSets, TLC

(***************************************************************************)
(* Bounds of the model.                                                    *)
(***************************************************************************)
MaxRows == 2
MaxCells == 2
MaxRuns == 2
MaxStrLen == 2

(***************************************************************************)
(* Characters.                                                             *)
(***************************************************************************)
UpperSeq == <<"A","B","C","D","E","F","G","H","I","J","K","L","M","N","O","P","Q","R","S","T","U","V","W","X","Y","Z">>
LowerSeq == <<"a","b","c","d","e","f","g","h","i","j","k","l","m","n","o","p","q","r","s","t","u","v","w","x","y","z">>
DigitSeq == <<"0","1","2","3","4","5","6","7","8","9">>

Range(f) == {f[i] : i \in DOMAIN f}

Digits == Range(DigitSeq)
Letters == Range(UpperSeq) \cup Range(LowerSeq)
LowerOf == [c \in Range(UpperSeq) |->
               LowerSeq[CHOOSE i \in DOMAIN UpperSeq : UpperSeq[i] = c]]
DigitValue == [c \in Digits |-> (CHOOSE i \in DOMAIN DigitSeq : DigitSeq[i] = c) - 1]

\* \d of the regular expressions
IsDigit(c) == c \in Digits

\* [A-Za-z] of the regular expressions
IsAlpha(c) == c \in Letters

\* \s of the regular expressions and the characters str.strip() removes
IsSpace(c) == c = " "

\* str.lower() on one character
LowerChar(c) == IF c \in DOMAIN LowerOf THEN LowerOf[c] ELSE c

\* str.lower()
Lower(s) == [i \in DOMAIN s |-> LowerChar(s[i])]

RECURSIVE LStrip(_)
LStrip(s) == IF s # <<>> /\ IsSpace(Head(s)) THEN LStrip(Tail(s)) ELSE s

RECURSIVE RStrip(_)
RStrip(s) ==
    IF s # <<>> /\ IsSpace(s[Len(s)]) THEN RStrip(SubSeq(s, 1, Len(s) - 1)) ELSE s

\* str.strip()
Strip(s) == RStrip(LStrip(s))

\* sub in s
Contains(s, sub) ==
    \E i \in 1..(Len(s) - Len(sub) + 1) : SubSeq(s, i, i + Len(sub) - 1) = sub

\* sep.join(parts)
RECURSIVE Join(_, _)
Join(parts, sep) ==
    IF parts = <<>> THEN <<>>
    ELSE IF Len(parts) = 1 THEN parts[1]
    ELSE parts[1] \o sep \o Join(Tail(parts), sep)

\* re.findall(r'[A-Za-z]+', s): the maximal alphabetic runs of s, in order
RECURSIVE AlphaRuns(_, _)
AlphaRuns(s, cur) ==
    IF s = <<>> THEN (IF cur = <<>> THEN <<>> ELSE <<cur>>)
    ELSE IF IsAlpha(Head(s)) THEN AlphaRuns(Tail(s), Append(cur, Head(s)))
    ELSE (IF cur = <<>> THEN <<>> ELSE <<cur>>) \o AlphaRuns(Tail(s), <<>>)

(***************************************************************************)
(* Values.                                                                 *)
(***************************************************************************)
NA == [t |-> "na"]
NoneV == [t |-> "none"]
Str(s) == [t |-> "str", s |-> s]
IntV(neg, n) == [t |-> "int", neg |-> neg, n |-> n]

\* the double (+/-) m * 10^e, trailing zeros of m moved into e
RECURSIVE Float(_, _, _)
Float(neg, m, e) ==
    IF m = 0 THEN [t |-> "float", neg |-> neg, m |-> 0, e |-> 0]
    ELSE IF m % 10 = 0 THEN Float(neg, m \div 10, e + 1)
    ELSE [t |-> "float", neg |-> neg, m |-> m, e |-> e]

\* pd.isna / pd.notna on a scalar
isna(v) == v.t \in {"na", "none"}
notna(v) == ~isna(v)

\* -x
Negate(x) == [x EXCEPT !.neg = ~x.neg]

\* x * y
Times(x, y) == Float(x.neg # y.neg, x.m * y.m, x.e + y.e)

RECURSIVE NumOf(_)
NumOf(ds) ==
    IF ds = <<>> THEN 0
    ELSE 10 * NumOf(SubSeq(ds, 1, Len(ds) - 1)) + DigitValue[ds[Len(ds)]]

RECURSIVE DigitsOf(_)
DigitsOf(n) ==
    IF n < 10 THEN <<DigitSeq[n + 1]>>
    ELSE Append(DigitsOf(n \div 10), DigitSeq[(n % 10) + 1])

Zeros(k) == [i \in 1..k |-> "0"]

\* float(s) for a string s of digits and points only: ValueError (ok FALSE)
\* unless s has at least one digit and at most one point
ParseFloat(s) ==
    LET dots == {i \in DOMAIN s : s[i] = "."}
        ds == SelectSeq(s, IsDigit)
    IN  IF Cardinality(dots) > 1 \/ ds = <<>>
        THEN [ok |-> FALSE, val |-> NA]
        ELSE LET fracLen == IF dots = {} THEN 0
                            ELSE Len(s) - (CHOOSE i \in dots : TRUE)
             IN  [ok |-> TRUE, val |-> Float(FALSE, NumOf(ds), -fracLen)]

\* float(value) for an int or a float
ToFloat(v) == IF v.t = "int" THEN Float(v.neg, v.n, 0) ELSE v

\* str(x) for a float: repr switches to exponent notation when the decimal
\* exponent is below -4 or at least 16
FloatStr(x) ==
    LET D == DigitsOf(x.m)
        d == Len(D)
        X == d - 1 + x.e
        sign == IF x.neg THEN <<"-">> ELSE <<>>
        fixed ==
            IF x.e >= 0 THEN D \o Zeros(x.e) \o <<".", "0">>
            ELSE IF d + x.e > 0
                 THEN SubSeq(D, 1, d + x.e) \o <<".">> \o SubSeq(D, d + x.e + 1, d)
                 ELSE <<"0", ".">> \o Zeros(-(d + x.e)) \o D
        ax == IF X < 0 THEN -X ELSE X
        sci ==
            <<D[1]>> \o (IF d > 1 THEN <<".">> \o Tail(D) ELSE <<>>)
            \o <<"e", IF X < 0 THEN "-" ELSE "+">>
            \o (IF ax < 10 THEN <<"0">> ELSE <<>>) \o DigitsOf(ax)
    IN  sign \o (IF x.m = 0 \/ (-4 <= X /\ X < 16) THEN fixed ELSE sci)

\* str(value)
PyStr(v) ==
    CASE v.t = "str" -> v.s
      [] v.t = "float" -> FloatStr(v)
      [] v.t = "int" -> (IF v.neg THEN <<"-">> ELSE <<>>) \o DigitsOf(v.n)
      [] v.t = "none" -> <<"N","o","n","e">>
      [] OTHER -> <<"<","N","A",">">>

(***************************************************************************)
(* The leaf normalizers.                                                   *)
(***************************************************************************)
LTM_EBITDA == <<"L","T","M"," ","E","B","I","T","D","A">>
LTM_Revenue == <<"L","T","M"," ","R","e","v","e","n","u","e">>

\* what a call that raises returns in the model
Raised(exc) == [t |-> "raise", exc |-> exc]

\* clean_numeric_value(value)
clean_numeric_value(value) ==
    IF isna(value) THEN NA
    ELSE IF value.t \in {"int", "float"} THEN ToFloat(value)
    ELSE LET v1 == Strip(PyStr(value))
             is_negative == v1 # <<>> /\ Head(v1) = "(" /\ v1[Len(v1)] = ")"
             v2 == IF is_negative THEN SubSeq(v1, 2, Len(v1) - 1) ELSE v1
             v3 == SelectSeq(v2, LAMBDA c : IsDigit(c) \/ c = ".")
         IN  IF v3 = <<>> THEN NA
             ELSE LET r == ParseFloat(v3)
                  IN  IF ~r.ok THEN NA
                      ELSE IF is_negative THEN Negate(r.val) ELSE r.val

\* extract_text_content(value)
extract_text_content(value) ==
    IF isna(value) THEN Str(<<>>)
    ELSE LET v1 == SelectSeq(PyStr(value),
                          LAMBDA c : ~(IsDigit(c) \/ c \in {".", "(", ")"}))
             text == AlphaRuns(v1, <<>>)
         IN  Str(Join(text, <<" ">>))

\* find_target_column(text): text.lower() raises AttributeError unless text
\* is a str (None, NaN and pd.NA have no lower)
find_target_column(text) ==
    IF text.t # "str" THEN Raised("AttributeError")
    ELSE LET low == Lower(text.s)
         IN  IF Contains(low, <<"l","t","m">>) THEN Str(LTM_EBITDA)
             ELSE IF Contains(low, <<"t","t","m">>) THEN Str(LTM_Revenue)
             ELSE NoneV

\* is_cad_currency(text)
is_cad_currency(text) ==
    IF isna(text) THEN FALSE
    ELSE LET low == Lower(PyStr(text))
         IN  Contains(low, <<"c","a","d">>) \/ Contains(low, <<"c","$">>)

(***************************************************************************)
(* The table (a DataFrame): df maps a row index to the row's cells, one    *)
(* per column name; columns is df.columns.                                 *)
(***************************************************************************)
Notes == <<"N","o","t","e","s">>
Revenue == <<"R","e","v","e","n","u","e">>
Unbound == [t |-> "unbound"]

\* the default of the parameter cad_to_usd_rate: 0.73
DefaultRate == Float(FALSE, 73, -2)

\* df[c] = pd.NA for a new column c: every row gets a missing cell
AddColumn(d, c) ==
    [r \in DOMAIN d |->
        [k \in (DOMAIN d[r]) \cup {c} |-> IF k = c THEN NA ELSE d[r][k]]]

\* df.at[r, c] = v (a label the frame lacks is added, as .at does)
SetAt(d, r, c, v) ==
    LET e == IF c \in DOMAIN d[r] THEN d ELSE AddColumn(d, c)
    IN  [e EXCEPT ![r][c] = v]

\* if 'Notes' not in df.columns: df['Notes'] = pd.NA
EnsureNotesColumns(cols) ==
    IF Notes \in Range(cols) THEN cols ELSE Append(cols, Notes)

\* a variant that leaves the column to the first write of a note
EnsureNotesLazily(d, cols) == d

EnsureNotes(d, cols) ==
    IF Notes \in Range(cols) THEN d ELSE AddColumn(d, Notes)

\* if pd.isna(value): continue
SkipsCell(value) == isna(value)

\* a variant that converts every number, tagged or not
ConvertedAlways(numeric_value, is_cad, rate) ==
    IF notna(numeric_value) THEN Times(numeric_value, rate) ELSE numeric_value

\* if is_cad and pd.notna(numeric_value): numeric_value *= cad_to_usd_rate
Converted(numeric_value, is_cad, rate) ==
    IF is_cad /\ notna(numeric_value) THEN Times(numeric_value, rate)
    ELSE numeric_value

\* the list notes built for one cell
NotesFragments(col, extracted_text, is_cad) ==
    (IF extracted_text # <<>>
     THEN <<col \o <<":"," ">> \o extracted_text>> ELSE <<>>)
    \o (IF is_cad
        THEN << <<"o","r","i","g","i","n","a","l","l","y"," ","s","t","o","r","e","d"," ","a","s"," ","C","A","D">> >>
        ELSE <<>>)

\* a variant that replaces the row's Notes instead of appending to it
OverwrittenNotes(current_notes, joined) == Str(joined)

\* the new content of the row's Notes cell when the cell has fragments
AppendedNotes(current_notes, joined) ==
    IF isna(current_notes) THEN Str(joined)
    ELSE Str(PyStr(current_notes) \o <<";"," ">> \o joined)

\* a variant that records whatever new_notes holds: 'Notes Added': new_notes
NotesAddedStale(notes, joined, stale) ==
    IF notes # <<>> THEN Str(joined) ELSE stale

\* 'Notes Added': new_notes if notes else None
NotesAddedField(notes, joined, stale) ==
    IF notes # <<>> THEN Str(joined) ELSE NoneV

\* a variant that moves the value: the cell at col is cleared
MigrateMoving(d, r, col, target_col, numeric_value) ==
    IF target_col = NoneV THEN d
    ELSE LET e == SetAt(d, r, target_col.s, numeric_value)
         IN  IF target_col.s = col THEN e ELSE SetAt(e, r, col, NA)

\* the table after "if target_col:": the target column is created when the
\* frame lacks it and the row's cell of it is set; the cell at col is left
MigrateTo(d, r, col, target_col, numeric_value) ==
    IF target_col = NoneV THEN d
    ELSE SetAt(IF target_col.s \in DOMAIN d[r] THEN d
               ELSE AddColumn(d, target_col.s),
               r, target_col.s, numeric_value)

MigratedColumns(cols, target_col) ==
    IF target_col = NoneV \/ target_col.s \in Range(cols) THEN cols
    ELSE Append(cols, target_col.s)

AuditRecord(r, col, old, new, added, target_col) ==
    [RowIndex |-> r, ColumnName |-> col, OldValue |-> old, NewValue |-> new,
     NotesAdded |-> added, MigratedToColumn |-> target_col]

(***************************************************************************)
(* State of one call process_financial_dataframe(df, columns_to_check,     *)
(* cad_to_usd_rate), and of one call of a leaf normalizer.                 *)
(***************************************************************************)
VARIABLES
    df,                \* the table, mutated in place
    columns,           \* df.columns, in order
    columns_to_check,  \* the caller's column list
    cad_to_usd_rate,   \* the conversion rate of the call
    pc,                \* "call", "loop", "done", "raised" ("leaf": no call)
    idx,               \* the row df.iterrows() has yielded
    ci,                \* the position of col in columns_to_check
    rows,              \* the rows df.iterrows() yields (df.values at loop start)
    shares,            \* whether those rows share memory with df
    audit_log,         \* the list audit_log
    new_notes,         \* the local variable new_notes
    input,             \* the table as it was passed to the call
    run,               \* the number of calls made on the table
    fn, arg, res       \* a leaf normalizer, its argument and what it returned

vars == <<df, columns, columns_to_check, cad_to_usd_rate, pc, idx, ci, rows,
          shares, audit_log, new_notes, input, run, fn, arg, res>>

engineVars == <<df, columns, columns_to_check, cad_to_usd_rate, pc, idx, ci,
                rows, shares, audit_log, new_notes, input, run>>

leafVars == <<fn, arg, res>>

(***************************************************************************)
(* The tables and column lists the calls are made on: up to MaxRows rows,  *)
(* up to MaxCells cells that hold a value.  A list names financial         *)
(* columns, each once; one of them may be missing from the table.          *)
(***************************************************************************)
CellValues ==
    { NA,
      Str(<<"C","A","D"," ","(","1","0","0",")">>),
      Str(<<"L","T","M"," ","5","0">>),
      Str(<<"C","a","d"," ","T","T","M">>),
      Str(<<"0",".","0","0","0","0","1">>),
      Float(FALSE, 50, 0) }

NotesValues == { NA, Str(<<"o","l","d">>) }

FinancialColumns == { Revenue, LTM_EBITDA }

InitColumns ==
    { <<Revenue>>, <<Revenue, LTM_EBITDA>>,
      <<Revenue, Notes>>, <<Revenue, LTM_EBITDA, Notes>> }

ColumnLists ==
    { l \in UNION { [1..k -> FinancialColumns] :
                       k \in 0..Cardinality(FinancialColumns) } :
        \A i, j \in DOMAIN l : l[i] = l[j] => i = j }

\* the tables of n rows and columns cols of which at most MaxCells cells
\* hold a value: the cells that do, and what each holds
Tables(n, cols) ==
    LET cells == (0..(n - 1)) \X Range(cols)
        holds(rc) == (IF rc[2] = Notes THEN NotesValues ELSE CellValues) \ {NA}
        fills == UNION { { f \in [P -> UNION {holds(rc) : rc \in P}] :
                             \A rc \in P : f[rc] \in holds(rc) } :
                         P \in { Q \in SUBSET cells : Cardinality(Q) <= MaxCells } }
    IN  { [r \in 0..(n - 1) |->
              [c \in Range(cols) |->
                  IF <<r, c>> \in DOMAIN f THEN f[<<r, c>>] ELSE NA]] :
          f \in fills }

Init ==
    /\ columns \in InitColumns
    /\ \E n \in 0..MaxRows : df \in Tables(n, columns)
    /\ columns_to_check \in ColumnLists
    /\ cad_to_usd_rate = DefaultRate
    /\ pc = "call"
    /\ idx = 0
    /\ ci = 1
    /\ rows = df
    /\ shares = FALSE
    /\ audit_log = <<>>
    /\ new_notes = Unbound
    /\ input = df
    /\ run = 1
    /\ fn = "none"
    /\ arg = NA
    /\ res = NA

(***************************************************************************)
(* process_financial_dataframe.                                            *)
(***************************************************************************)
NRows == Cardinality(DOMAIN df)

\* the loops are over: no row is left, or no column is listed
LoopOver == idx >= NRows \/ columns_to_check = <<>>

col == columns_to_check[ci]

\* the next (row, column) of "for idx, row in df.iterrows(): for col in
\* columns_to_check:"
Advance ==
    IF ci < Len(columns_to_check)
    THEN idx' = idx /\ ci' = ci + 1
    ELSE idx' = idx + 1 /\ ci' = 1

\* what the rows that iterrows yields hold once df is d: the same cells when
\* they share df's memory, else what they held
RowsAfter(d) ==
    IF shares
    THEN [r \in DOMAIN rows |-> [c \in DOMAIN rows[r] |-> d[r][c]]]
    ELSE rows

\* The entry: the Notes column is added when the table lacks it, audit_log
\* is empty and df.iterrows() starts.  iterrows builds its rows from
\* df.values: a copy of the cells, or (a frame held in one block of one
\* dtype) an array that shares df's memory, so that the loop's writes to df
\* show in the rows it reads.  The pandas documentation of iterrows: "You
\* should never modify something you are iterating over.  This is not
\* guaranteed to work in all cases.  Depending on the data types, the
\* iterator returns a copy and not a view".  Both are outcomes.
Call ==
    /\ pc = "call"
    /\ input' = df
    /\ df' = EnsureNotes(df, columns)
    /\ columns' = EnsureNotesColumns(columns)
    /\ audit_log' = <<>>
    /\ new_notes' = Unbound
    /\ rows' = df'
    /\ shares' \in BOOLEAN
    /\ idx' = 0
    /\ ci' = 1
    /\ pc' = "loop"
    /\ UNCHANGED <<columns_to_check, cad_to_usd_rate, run, leafVars>>

\* value = row[col] raises KeyError: the table has no column col
KeyErrorCell ==
    /\ pc = "loop"
    /\ ~LoopOver
    /\ col \notin DOMAIN rows[idx]
    /\ pc' = "raised"
    /\ UNCHANGED <<df, columns, columns_to_check, cad_to_usd_rate, idx, ci, rows,
                   shares, audit_log, new_notes, input, run, leafVars>>

\* a missing value: continue
SkipCell ==
    /\ pc = "loop"
    /\ ~LoopOver
    /\ col \in DOMAIN rows[idx]
    /\ SkipsCell(rows[idx][col])
    /\ Advance
    /\ UNCHANGED <<df, columns, columns_to_check, cad_to_usd_rate, pc, rows,
                   shares, audit_log, new_notes, input, run, leafVars>>

\* the body of the loops for one cell that holds a value
ProcessCell ==
    /\ pc = "loop"
    /\ ~LoopOver
    /\ col \in DOMAIN rows[idx]
    /\ ~SkipsCell(rows[idx][col])
    /\ LET value == rows[idx][col]
           original_value == value
           str_val == Str(PyStr(value))
           extracted_text == extract_text_content(str_val).s
           is_cad == is_cad_currency(str_val)
           numeric_value ==
               Converted(clean_numeric_value(value), is_cad, cad_to_usd_rate)
           df1 == SetAt(df, idx, col, numeric_value)
           notes == NotesFragments(col, extracted_text, is_cad)
           joined == Join(notes, <<";"," ">>)
           df2 == IF notes # <<>>
                  THEN SetAt(df1, idx, Notes, AppendedNotes(df1[idx][Notes], joined))
                  ELSE df1
           target_col == find_target_column(Str(extracted_text))
           df3 == MigrateTo(df2, idx, col, target_col, numeric_value)
       IN  /\ df' = df3
           /\ columns' = MigratedColumns(columns, target_col)
           /\ new_notes' = IF notes # <<>> THEN Str(joined) ELSE new_notes
           /\ rows' = RowsAfter(df3)
           /\ audit_log' =
                Append(audit_log,
                       AuditRecord(idx, col, original_value, numeric_value,
                                   NotesAddedField(notes, joined, new_notes),
                                   target_col))
    /\ Advance
    /\ UNCHANGED <<columns_to_check, cad_to_usd_rate, pc, shares, input, run,
                   leafVars>>

\* audit_df = pd.DataFrame(audit_log); return df, audit_df
Return ==
    /\ pc = "loop"
    /\ LoopOver
    /\ pc' = "done"
    /\ UNCHANGED <<df, columns, columns_to_check, cad_to_usd_rate, idx, ci, rows,
                   shares, audit_log, new_notes, input, run, leafVars>>

\* the caller runs the routine again on the table it got back, with the
\* same column list and rate
Recall ==
    /\ pc = "done"
    /\ run < MaxRuns
    /\ run' = run + 1
    /\ pc' = "call"
    /\ UNCHANGED <<df, columns, columns_to_check, cad_to_usd_rate, idx, ci, rows,
                   shares, audit_log, new_notes, input, leafVars>>

Next == Call \/ KeyErrorCell \/ SkipCell \/ ProcessCell \/ Return

Spec == Init /\ [][Next]_vars

NextRerun == Next \/ Recall

SpecRerun == Init /\ [][NextRerun]_vars

(***************************************************************************)
(* One call of one leaf normalizer on one argument.                        *)
(***************************************************************************)
Bool(b) == [t |-> "bool", b |-> b]

LeafAlphabet == {"l", "T", "m", "t", "c", "A", "d", "$", "1", ".", "(", ")", " "}

LeafStrings == UNION { [1..k -> LeafAlphabet] : k \in 0..MaxStrLen }

MissingValues == { NA, NoneV }

LeafInputs ==
    MissingValues
    \cup { Str(s) : s \in LeafStrings }
    \cup { Float(FALSE, 50, 0), Float(TRUE, 1, -5), IntV(FALSE, 7) }

InitLeaf ==
    /\ arg \in LeafInputs
    /\ fn = "none"
    /\ res = NA
    /\ df = <<>>
    /\ columns = <<>>
    /\ columns_to_check = <<>>
    /\ cad_to_usd_rate = DefaultRate
    /\ pc = "leaf"
    /\ idx = 0
    /\ ci = 1
    /\ rows = <<>>
    /\ shares = FALSE
    /\ audit_log = <<>>
    /\ new_notes = Unbound
    /\ input = <<>>
    /\ run = 0

CallCleanNumericValue ==
    /\ pc = "leaf" /\ fn = "none"
    /\ fn' = "clean_numeric_value"
    /\ res' = clean_numeric_value(arg)
    /\ UNCHANGED <<arg, engineVars>>

CallExtractTextContent ==
    /\ pc = "leaf" /\ fn = "none"
    /\ fn' = "extract_text_content"
    /\ res' = extract_text_content(arg)
    /\ UNCHANGED <<arg, engineVars>>

CallIsCadCurrency ==
    /\ pc = "leaf" /\ fn = "none"
    /\ fn' = "is_cad_currency"
    /\ res' = Bool(is_cad_currency(arg))
    /\ UNCHANGED <<arg, engineVars>>

CallFindTargetColumn ==
    /\ pc = "leaf" /\ fn = "none"
    /\ fn' = "find_target_column"
    /\ res' = find_target_column(arg)
    /\ UNCHANGED <<arg, engineVars>>

NextLeaf ==
    \/ CallCleanNumericValue
    \/ CallExtractTextContent
    \/ CallIsCadCurrency
    \/ CallFindTargetColumn

SpecLeaf == InitLeaf /\ [][NextLeaf]_vars

(***************************************************************************)
(* Properties.                                                             *)
(***************************************************************************)
Running == pc \in {"loop", "done", "raised"}

\* a step that appended an audit record: the body ran for one cell
ProcessStep == Len(audit_log') = Len(audit_log) + 1

LastRecord(log) == log[Len(log)]

TextOf(v) == extract_text_content(Str(PyStr(v))).s

HasCadTag(v) == is_cad_currency(Str(PyStr(v)))

\* the fragments the cell of an audit record yields
FragmentsOf(rec) ==
    LET text == TextOf(rec.OldValue)
    IN  (IF text # <<>> THEN <<rec.ColumnName \o <<":"," ">> \o text>> ELSE <<>>)
    \o (IF HasCadTag(rec.OldValue)
        THEN << <<"o","r","i","g","i","n","a","l","l","y"," ","s","t","o","r","e","d"," ","a","s"," ","C","A","D">> >>
        ELSE <<>>)

Fragmentless(rec) == FragmentsOf(rec) = <<>>

InputHasNotes == \A r \in DOMAIN input : Notes \in DOMAIN input[r]

CadParen100 == Str(<<"C","A","D"," ","(","1","0","0",")">>)

\* C1: with rate 0.73, a run whose single processed column holds the text
\* "CAD (100)" leaves that cell holding -73.0.
C1_CadParenthesisedBecomesMinus73 ==
    (pc = "done" /\ columns_to_check = <<Revenue>>
        /\ cad_to_usd_rate = Float(FALSE, 73, -2))
    => \A r \in DOMAIN input :
          input[r][Revenue] = CadParen100 => df[r][Revenue] = Float(TRUE, 73, 0)

\* the (row, column) pairs of the loops, rows in table order and, within a
\* row, the columns in list order
PairsInOrder ==
    [k \in 1..(Cardinality(DOMAIN input) * Len(columns_to_check)) |->
        << (k - 1) \div Len(columns_to_check),
           columns_to_check[((k - 1) % Len(columns_to_check)) + 1] >>]

\* C2: the returned audit log holds exactly one record for each (row,
\* column) pair whose value in the input table is non-missing, none for a
\* pair whose value is missing, in nested order: rows in table order and,
\* within a row, the columns in list order.
C2_OneRecordPerNonMissingInputPair ==
    pc = "done"
    => [k \in DOMAIN audit_log |->
            <<audit_log[k].RowIndex, audit_log[k].ColumnName>>]
       = SelectSeq(PairsInOrder, LAMBDA p : notna(input[p[1]][p[2]]))

\* C3, as amended: the audit record of a cell that yields no notes fragment
\* has None as its "Notes Added", also when an earlier cell of the run
\* yielded fragments.
C3_FragmentlessRecordHasNone ==
    \A k \in DOMAIN audit_log :
        Fragmentless(audit_log[k]) => audit_log[k].NotesAdded = NoneV

C3_Witness ==
    \E k \in DOMAIN audit_log : \E j \in 1..(k - 1) :
        /\ Fragmentless(audit_log[k])
        /\ ~Fragmentless(audit_log[j])
        /\ audit_log[k].NotesAdded = NoneV

\* C3, as stated: the audit record of a fragment-less cell carries the
\* joined fragments left over from the latest earlier cell that yielded some.
C3_FragmentlessRecordCarriesStaleNotes ==
    \A k \in DOMAIN audit_log :
        LET earlier == {j \in 1..(k - 1) : ~Fragmentless(audit_log[j])}
        IN  (Fragmentless(audit_log[k]) /\ earlier # {})
            => LET j == CHOOSE i \in earlier : \A o \in earlier : o <= i
               IN  audit_log[k].NotesAdded
                     = Str(Join(FragmentsOf(audit_log[j]), <<";"," ">>))

\* find_target_column of the text extracted from a value
TargetOf(v) ==
    LET low == Lower(TextOf(v))
    IN  IF Contains(low, <<"l","t","m">>) THEN LTM_EBITDA
        ELSE IF Contains(low, <<"t","t","m">>) THEN LTM_Revenue
        ELSE <<>>

C5_SecondRunChangesNothing ==
    (run = 2 /\ Running)
    => \A k \in DOMAIN audit_log :
          audit_log[k].OldValue.t = "float"
          => /\ audit_log[k].NewValue = audit_log[k].OldValue
             /\ audit_log[k].NotesAdded = NoneV

\* C6: given a missing input, clean_numeric_value returns missing,
\* extract_text_content the empty string, is_cad_currency false and
\* find_target_column no-match, and none of them raises.
C6_MissingInputGivesSentinel ==
    (fn # "none" /\ arg \in MissingValues)
    => /\ res.t # "raise"
       /\ fn = "clean_numeric_value" => res = NA
       /\ fn = "extract_text_content" => res = Str(<<>>)
       /\ fn = "is_cad_currency" => res = Bool(FALSE)
       /\ fn = "find_target_column" => res = NoneV

\* the Notes content after the fragments of the records of row r are
\* appended, in the order of the log, to the content cur
RECURSIVE NotesAfter(_, _, _)
NotesAfter(cur, log, r) ==
    IF log = <<>> THEN cur
    ELSE LET rec == Head(log)
             frags == FragmentsOf(rec)
             joined == Join(frags, <<";"," ">>)
         IN  NotesAfter(
               IF rec.RowIndex # r \/ frags = <<>> THEN cur
               ELSE IF isna(cur) THEN Str(joined)
               ELSE Str(cur.s \o <<";"," ">> \o joined),
               Tail(log), r)

InitialNotes(r) == IF Notes \in DOMAIN input[r] THEN input[r][Notes] ELSE NA

C8_NotesCreatedAtEntry ==
    Running
    => /\ Notes \in Range(columns)
       /\ \A r \in DOMAIN df : Notes \in DOMAIN df[r]
       /\ (~InputHasNotes /\ \A k \in DOMAIN audit_log : audit_log[k].NotesAdded = NoneV)
            => \A r \in DOMAIN df : df[r][Notes] = NA

C8_Witness ==
    /\ pc = "done"
    /\ ~InputHasNotes
    /\ audit_log # <<>>
    /\ \A k \in DOMAIN audit_log : audit_log[k].NotesAdded = NoneV
    /\ Notes \in Range(columns)

\* C8, as stated: a table that lacks a Notes column gets one only once a
\* processed cell has yielded a fragment, so a run in which no cell yields
\* one returns the table without a Notes column.
C8_NotesCreatedLazily ==
    (Running /\ ~InputHasNotes)
    => (Notes \in Range(columns)
          <=> \E k \in DOMAIN audit_log : audit_log[k].NotesAdded # NoneV)

\* C9: the value written back for a processed cell is the numeric
\* extraction of the raw value, multiplied by the rate exactly once if and
\* only if the raw value carries a CAD tag and the extraction is present;
\* the audit record has the raw value as Old Value and the written value as
\* New Value.
C9_WrittenValueAndAudit ==
    [][ProcessStep
        => LET rec == LastRecord(audit_log')
               raw == rows[idx][col]
               n == clean_numeric_value(raw)
           IN  /\ rec.RowIndex = idx /\ rec.ColumnName = col
               /\ rec.OldValue = raw
               /\ (HasCadTag(raw) /\ n # NA)
                    => rec.NewValue = Float(n.neg, n.m * cad_to_usd_rate.m,
                                            n.e + cad_to_usd_rate.e)
               /\ ~(HasCadTag(raw) /\ n # NA) => rec.NewValue = n
               /\ df'[idx][col] = rec.NewValue
      ]_vars

C9_Witness ==
    /\ audit_log # <<>>
    /\ LastRecord(audit_log).OldValue = CadParen100
    /\ LastRecord(audit_log).NewValue = Float(FALSE, 73, 0)
    /\ df[LastRecord(audit_log).RowIndex][LastRecord(audit_log).ColumnName]
         = Float(FALSE, 73, 0)

\* the cells an audit record reports a write to
WritesOf(rec) ==
    {<<rec.RowIndex, rec.ColumnName>>}
    \cup (IF rec.MigratedToColumn = NoneV THEN {}
          ELSE {<<rec.RowIndex, rec.MigratedToColumn.s>>})

=============================================================================
